---- MODULE Spec2Model ----
(***************************************************************************)
(* Teams operator (src/part-five/operator/teams_operator.py) together with *)
(* the Teams API registry it polls (src/part-four/main.py) and the set of  *)
(* namespaces of the cluster it drives.                                    *)
(*                                                                         *)
(* Team names and namespace names are sequences of one-character strings,  *)
(* so that sanitize_namespace_name is computed character by character as   *)
(* the code computes it.                                                   *)
(***************************************************************************)
EXTENDS Integers, Sequences, FiniteSets, TLC

(***************************************************************************)
(* Bounds of the model.                                                    *)
(***************************************************************************)
\* Number of team ids the registry ever hands out (uuid4 ids are never reused).
MaxTeams == 2

\* Kubernetes limit used by sanitize_namespace_name.
MaxNamespaceLen == 63

\* Longest raw team name enumerated character by character.
MaxRawLen == 4

TeamIds == 1..MaxTeams

\* The raw team names offered to the registry's POST /teams.
TeamNames ==
  { <<"A", " ", "b">>, <<"a", "-", "b">>, <<"B", "!">>, <<"a", " ", "B">> }

(***************************************************************************)
(* Characters: str.lower and str.isalnum on the characters in use. Python's *)
(* isalnum accepts every Unicode letter and digit, not only ASCII ones.    *)
(***************************************************************************)
UpperChars == {"A", "B", "C", "T"}
LowerChars == {"a", "b", "c", "d", "e", "k", "m", "n", "t"}
DigitChars == {"0", "1"}
NonAsciiUpperChars == {"É"}
NonAsciiLowerChars == {"é"}

LowerChar(c) ==
  CASE c = "A" -> "a"
    [] c = "B" -> "b"
    [] c = "C" -> "c"
    [] c = "T" -> "t"
    [] c = "É" -> "é"
    [] OTHER -> c

IsAlnum(c) ==
  c \in UpperChars \cup LowerChars \cup DigitChars \cup NonAsciiUpperChars
          \cup NonAsciiLowerChars

\* str.lower()
Lower(s) == [i \in 1..Len(s) |-> LowerChar(s[i])]

\* ''.join(c if c.isalnum() else '-' for c in namespace)
ReplaceInvalid(s) == [i \in 1..Len(s) |-> IF IsAlnum(s[i]) THEN s[i] ELSE "-"]

\* '-'.join(namespace.split('-')), without the filter: nothing is collapsed.
JoinSegments_unfiltered(s) == s

\* '-'.join(filter(None, namespace.split('-'))): every character of a non-empty
\* segment is kept, and a hyphen is kept only when it separates two non-empty
\* segments, i.e. an alphanumeric precedes it and one follows later.
KeptAt(s, i) ==
  \/ s[i] # "-"
  \/ i > 1 /\ s[i - 1] # "-" /\ \E j \in (i + 1)..Len(s) : s[j] # "-"

\* The kept characters of s[lo..hi], in order (halving keeps the nesting shallow).
RECURSIVE JoinRange(_, _, _)
JoinRange(s, lo, hi) ==
  IF lo > hi THEN <<>>
  ELSE IF lo = hi THEN (IF KeptAt(s, lo) THEN <<s[lo]>> ELSE <<>>)
  ELSE LET mid == (lo + hi) \div 2
       IN  JoinRange(s, lo, mid) \o JoinRange(s, mid + 1, hi)

JoinSegments(s) == JoinRange(s, 1, Len(s))

\* str.strip('-')
RECURSIVE LStrip(_)
LStrip(s) == IF s # <<>> /\ Head(s) = "-" THEN LStrip(Tail(s)) ELSE s

RECURSIVE RStrip(_)
RStrip(s) ==
  IF s # <<>> /\ s[Len(s)] = "-" THEN RStrip(SubSeq(s, 1, Len(s) - 1)) ELSE s

Strip(s) == RStrip(LStrip(s))

\* if len(namespace) > 63: namespace = namespace[:63].rstrip('-')
Truncate(s) ==
  IF Len(s) > MaxNamespaceLen THEN RStrip(SubSeq(s, 1, MaxNamespaceLen)) ELSE s

Prefix == <<"t", "e", "a", "m", "-">>

sanitize_namespace_name(team_name) ==
  Prefix \o Truncate(Strip(JoinSegments(ReplaceInvalid(Lower(team_name)))))

(***************************************************************************)
(* State.                                                                  *)
(***************************************************************************)
VARIABLES
  teams_store,      \* registry: team id -> team name (main.py teams_store)
  next_id,          \* number of ids the registry has handed out
  namespaces,       \* names of the namespaces present in the cluster
  known_teams,      \* TeamsOperator.known_teams
  team_namespaces,  \* TeamsOperator.team_namespaces: team id -> namespace name
  pc,               \* position of TeamsOperator.run
  sleeps,           \* completed asyncio.sleep calls since the last cycle
  cycle,            \* what the last reconciliation cycle saw and did
  recorded          \* every assignment of line 147 made by this process

vars ==
  <<teams_store, next_id, namespaces, known_teams, team_namespaces, pc, sleeps,
    cycle, recorded>>

EmptyMap == [k \in {} |-> <<>>]

Without(f, k) == [x \in DOMAIN f \ {k} |-> f[x]]

\* All orders in which a for loop may visit the elements of a set.
Orders(S) ==
  { o \in [1..Cardinality(S) -> S] : \A i, j \in 1..Cardinality(S) :
                                         i # j => o[i] # o[j] }

NoCycle ==
  [ran |-> FALSE, fetch |-> "none", desired |-> EmptyMap, known0 |-> {},
   team_namespaces0 |-> EmptyMap, namespaces0 |-> {},
   current_team_ids |-> {}, calls |-> <<>>, raised |-> FALSE,
   initial |-> FALSE]

Init ==
  /\ teams_store = EmptyMap
  /\ next_id = 0
  /\ namespaces = {}
  /\ known_teams = {}
  /\ team_namespaces = EmptyMap
  /\ pc = "initial"
  /\ sleeps = 0
  /\ cycle = NoCycle
  /\ recorded = {}

(***************************************************************************)
(* The registry (src/part-four/main.py).                                   *)
(***************************************************************************)
\* POST /teams: 400 when the lowercased name is taken, else a fresh id.
create_team(name) ==
  /\ next_id < MaxTeams
  /\ \A t \in DOMAIN teams_store : Lower(teams_store[t]) # Lower(name)
  /\ teams_store' = (next_id + 1 :> name) @@ teams_store
  /\ next_id' = next_id + 1
  /\ UNCHANGED <<namespaces, known_teams, team_namespaces, pc, sleeps, cycle,
                 recorded>>

\* DELETE /teams/{team_id}: 404 when absent.
delete_team(team_id) ==
  /\ team_id \in DOMAIN teams_store
  /\ teams_store' = Without(teams_store, team_id)
  /\ UNCHANGED <<next_id, namespaces, known_teams, team_namespaces, pc, sleeps,
                 cycle, recorded>>

\* GET /teams: every stored team, with its id and its name.
get_teams ==
  [t \in DOMAIN teams_store |-> [name |-> teams_store[t], named |-> TRUE]]

(***************************************************************************)
(* The operator (src/part-five/operator/teams_operator.py).                *)
(***************************************************************************)
\* What the GET of fetch_teams meets: "ok" is a 200 with the registry's list;
\* "error" is a connection error, a non-200 status or an unparsable body;
\* "noid" is a 200 whose records carry no 'id'; "noname" is a 200 in which the
\* record of team `bad` carries no 'name'.
Responses == {"ok", "error", "noid", "noname"}

\* fetch_teams: the list handed to reconcile_teams. Every failure is logged
\* and answered with the empty list.
fetch_teams(resp, bad) ==
  CASE resp = "error" -> [keyed |-> TRUE, teams |-> EmptyMap]
    [] resp = "noid" -> [keyed |-> FALSE, teams |-> get_teams]
    [] resp = "noname" ->
         [keyed |-> TRUE,
          teams |-> [t \in DOMAIN teams_store |->
                       [name |-> teams_store[t], named |-> t # bad]]]
    [] OTHER -> [keyed |-> TRUE, teams |-> get_teams]

\* create_namespace that reports success whatever the API answered.
create_namespace_always_true(namespace_name, ns, fails) ==
  IF fails THEN [ok |-> TRUE, namespaces |-> ns, outcome |-> "failed"]
  ELSE IF namespace_name \in ns
       THEN [ok |-> TRUE, namespaces |-> ns, outcome |-> "exists"]
       ELSE [ok |-> TRUE, namespaces |-> ns \cup {namespace_name},
             outcome |-> "created"]

\* create_namespace with the 409 answer reported as a failure.
create_namespace_conflict_fails(namespace_name, ns, fails) ==
  IF fails THEN [ok |-> FALSE, namespaces |-> ns, outcome |-> "failed"]
  ELSE IF namespace_name \in ns
       THEN [ok |-> FALSE, namespaces |-> ns, outcome |-> "exists"]
       ELSE [ok |-> TRUE, namespaces |-> ns \cup {namespace_name},
             outcome |-> "created"]

\* create_namespace: True on a created namespace and on 409 (already exists),
\* False on any other error. `fails` is the cluster API refusing the call.
create_namespace(namespace_name, ns, fails) ==
  IF fails THEN [ok |-> FALSE, namespaces |-> ns, outcome |-> "failed"]
  ELSE IF namespace_name \in ns
       THEN [ok |-> TRUE, namespaces |-> ns, outcome |-> "exists"]
       ELSE [ok |-> TRUE, namespaces |-> ns \cup {namespace_name},
             outcome |-> "created"]

\* delete_namespace with the 404 answer reported as a failure.
delete_namespace_notfound_fails(namespace_name, ns, fails) ==
  IF fails THEN [ok |-> FALSE, namespaces |-> ns, outcome |-> "failed"]
  ELSE IF namespace_name \in ns
       THEN [ok |-> TRUE, namespaces |-> ns \ {namespace_name},
             outcome |-> "deleted"]
       ELSE [ok |-> FALSE, namespaces |-> ns, outcome |-> "notfound"]

\* delete_namespace: True on a deleted namespace and on 404 (not found),
\* False on any other error.
delete_namespace(namespace_name, ns, fails) ==
  IF fails THEN [ok |-> FALSE, namespaces |-> ns, outcome |-> "failed"]
  ELSE IF namespace_name \in ns
       THEN [ok |-> TRUE, namespaces |-> ns \ {namespace_name},
             outcome |-> "deleted"]
       ELSE [ok |-> TRUE, namespaces |-> ns, outcome |-> "notfound"]

\* for team_id in new_teams: ... (lines 141-147). st carries team_namespaces,
\* the cluster's namespaces and the calls made so far; a record without a
\* 'name' raises KeyError and ends the cycle there.
RECURSIVE CreateLoop(_, _, _, _)
CreateLoop(order, teams, cf, st) ==
  IF order = <<>> THEN st
  ELSE LET team_id == Head(order) IN
       IF ~teams[team_id].named THEN [st EXCEPT !.raised = TRUE]
       ELSE LET namespace_name == sanitize_namespace_name(teams[team_id].name)
                r == create_namespace(namespace_name, st.namespaces,
                                      team_id \in cf)
            IN  CreateLoop(Tail(order), teams, cf,
                  [st EXCEPT
                     !.team_namespaces =
                        IF r.ok THEN (team_id :> namespace_name) @@ @ ELSE @,
                     !.recorded =
                        IF r.ok
                        THEN @ \cup {[id |-> team_id, name |-> namespace_name,
                                      outcome |-> r.outcome]}
                        ELSE @,
                     !.namespaces = r.namespaces,
                     !.calls = Append(@, [op |-> "create", id |-> team_id,
                                          name |-> namespace_name,
                                          outcome |-> r.outcome])])

\* for team_id in deleted_teams: ... (lines 151-158).
RECURSIVE DeleteLoop(_, _, _)
DeleteLoop(order, df, st) ==
  IF order = <<>> THEN st
  ELSE LET team_id == Head(order) IN
       IF team_id \notin DOMAIN st.team_namespaces
       THEN DeleteLoop(Tail(order), df, st)
       ELSE LET namespace_name == st.team_namespaces[team_id]
                r == delete_namespace(namespace_name, st.namespaces,
                                      team_id \in df)
            IN  DeleteLoop(Tail(order), df,
                  [st EXCEPT
                     !.team_namespaces = IF r.ok THEN Without(@, team_id) ELSE @,
                     !.namespaces = r.namespaces,
                     !.calls = Append(@, [op |-> "delete", id |-> team_id,
                                          name |-> namespace_name,
                                          outcome |-> r.outcome])])

\* new_teams without the set difference: every fetched id counts as new.
new_teams_all(current_team_ids) == current_team_ids

\* current_team_ids - self.known_teams and self.known_teams - current_team_ids
new_teams(current_team_ids) == current_team_ids \ known_teams

deleted_teams(current_team_ids) == known_teams \ current_team_ids

\* known_teams only ever extended: self.known_teams |= current_team_ids.
UpdateKnownTeams_union(current_team_ids) == known_teams \cup current_team_ids

\* known_teams at the end of a cycle that did not raise (line 161).
UpdateKnownTeams(current_team_ids) == current_team_ids

\* reconcile_teams: the tracker, the cluster and the call log after one cycle.
\* corder and dorder are the iteration orders of the two sets, cf and df the
\* ids whose create or delete call the cluster API refuses.
reconcile_teams(resp, bad, corder, dorder, cf, df) ==
  LET fetched == fetch_teams(resp, bad)
      st0 == [team_namespaces |-> team_namespaces, namespaces |-> namespaces,
              calls |-> <<>>, raised |-> FALSE, known_teams |-> known_teams,
              recorded |-> recorded]
  IN  IF ~fetched.keyed THEN [st0 EXCEPT !.raised = TRUE]
      ELSE LET current_team_ids == DOMAIN fetched.teams
               st1 == CreateLoop(corder, fetched.teams, cf, st0)
           IN  IF st1.raised THEN st1
               ELSE LET st2 == DeleteLoop(dorder, df, st1)
                    IN  [st2 EXCEPT
                           !.known_teams = UpdateKnownTeams(current_team_ids)]

\* One call of reconcile_teams from run; `first` tells the call of line 173
\* from the call of line 179.
Reconcile(first) ==
  \E resp \in Responses, bad \in DOMAIN teams_store \cup {0} :
    /\ (resp = "noname") <=> (bad # 0)
    /\ LET current_team_ids == DOMAIN fetch_teams(resp, bad).teams IN
       \E corder \in Orders(new_teams(current_team_ids)),
          dorder \in Orders(deleted_teams(current_team_ids)),
          cf \in SUBSET new_teams(current_team_ids),
          df \in SUBSET (deleted_teams(current_team_ids)
                           \cap DOMAIN team_namespaces) :
         LET st == reconcile_teams(resp, bad, corder, dorder, cf, df) IN
         /\ known_teams' = st.known_teams
         /\ team_namespaces' = st.team_namespaces
         /\ namespaces' = st.namespaces
         /\ cycle' = [ran |-> TRUE, fetch |-> resp,
                      desired |-> teams_store, known0 |-> known_teams,
                      team_namespaces0 |-> team_namespaces,
                      namespaces0 |-> namespaces,
                      current_team_ids |-> current_team_ids,
                      calls |-> st.calls, raised |-> st.raised,
                      initial |-> first]
         /\ recorded' = st.recorded
         /\ sleeps' = 0
         /\ pc' = IF st.raised
                  THEN (IF first THEN "crashed" ELSE "error_sleeping")
                  ELSE "sleeping"
         /\ UNCHANGED <<teams_store, next_id>>

\* run, line 173: the initial reconciliation, outside the try block.
InitialReconcile ==
  /\ pc = "initial"
  /\ Reconcile(TRUE)

\* run, line 178: await asyncio.sleep(self.poll_interval) returns.
Sleep ==
  /\ pc = "sleeping"
  /\ pc' = "reconcile"
  /\ sleeps' = sleeps + 1
  /\ UNCHANGED <<teams_store, next_id, namespaces, known_teams, team_namespaces,
                 cycle, recorded>>

\* run, line 179: the reconciliation inside the try block.
LoopReconcile ==
  /\ pc = "reconcile"
  /\ Reconcile(FALSE)

\* run, lines 183-185: the sleep of the except branch, then back to line 178.
ErrorSleep ==
  /\ pc = "error_sleeping"
  /\ pc' = "sleeping"
  /\ sleeps' = sleeps + 1
  /\ UNCHANGED <<teams_store, next_id, namespaces, known_teams, team_namespaces,
                 cycle, recorded>>

\* External cancellation while the loop sleeps (lines 180-182).
Cancel ==
  /\ pc \in {"sleeping", "error_sleeping"}
  /\ pc' = "stopped"
  /\ UNCHANGED <<teams_store, next_id, namespaces, known_teams, team_namespaces,
                 sleeps, cycle, recorded>>

\* main, lines 187-190: the process is started again; a new TeamsOperator
\* starts with an empty tracker, the registry and the cluster are as they were.
Restart ==
  /\ pc \in {"crashed", "stopped"}
  /\ known_teams' = {}
  /\ team_namespaces' = EmptyMap
  /\ pc' = "initial"
  /\ sleeps' = 0
  /\ cycle' = NoCycle
  /\ recorded' = {}
  /\ UNCHANGED <<teams_store, next_id, namespaces>>

CreateTeam == \E name \in TeamNames : create_team(name)

DeleteTeam == \E team_id \in TeamIds : delete_team(team_id)

Next ==
  \/ CreateTeam
  \/ DeleteTeam
  \/ InitialReconcile
  \/ Sleep
  \/ LoopReconcile
  \/ ErrorSleep
  \/ Cancel
  \/ Restart

Spec == Init /\ [][Next]_vars

(***************************************************************************)
(* The sanitizer on its own inputs: the registry holds one team whose name *)
(* is any string (POST /teams accepts every str), and the operator's       *)
(* cycles sanitize it and hand the result to create_namespace.             *)
(***************************************************************************)
SanAlphabet == {"A", "1", "-", " ", "é"}

RECURSIVE StringsUpTo(_)
StringsUpTo(n) ==
  IF n = 0 THEN {<<>>}
  ELSE LET shorter == StringsUpTo(n - 1)
       IN  shorter \cup { Append(w, c) : w \in shorter, c \in SanAlphabet }

Repeat(c, n) == [i \in 1..n |-> c]

\* Names around the length limit, one with a hyphen where the cut falls.
LongNames ==
  { Repeat("a", n) : n \in (MaxNamespaceLen - 6)..(MaxNamespaceLen + 2) }
    \cup { Repeat("a", MaxNamespaceLen - 1) \o <<"-", "b">> }

BackendTeam ==
  <<"B", "a", "c", "k", "e", "n", "d", " ", "T", "e", "a", "m", "!", "!">>

SanInputs == StringsUpTo(MaxRawLen) \cup LongNames \cup {BackendTeam}

SanInit ==
  /\ teams_store \in { (1 :> name) : name \in SanInputs }
  /\ next_id = 1
  /\ namespaces = {}
  /\ known_teams = {}
  /\ team_namespaces = EmptyMap
  /\ pc = "initial"
  /\ sleeps = 0
  /\ cycle = NoCycle
  /\ recorded = {}

SanNext ==
  \/ InitialReconcile
  \/ Sleep
  \/ LoopReconcile
  \/ ErrorSleep

SanSpec == SanInit /\ [][SanNext]_vars

(***************************************************************************)
(* A registry in which a team's display name may change while its id       *)
(* stays (the data model's "name may change over time"); main.py itself    *)
(* has no such endpoint.                                                   *)
(***************************************************************************)
rename_team(team_id, name) ==
  /\ team_id \in DOMAIN teams_store
  /\ teams_store[team_id] # name
  /\ \A t \in DOMAIN teams_store \ {team_id} :
       Lower(teams_store[t]) # Lower(name)
  /\ teams_store' = [teams_store EXCEPT ![team_id] = name]
  /\ UNCHANGED <<next_id, namespaces, known_teams, team_namespaces, pc, sleeps,
                 cycle, recorded>>

RenameTeam == \E team_id \in TeamIds, name \in TeamNames : rename_team(team_id, name)

\* The registry holds one team when the operator starts; only its name changes.
RenameInit ==
  /\ teams_store \in { (1 :> name) : name \in TeamNames }
  /\ next_id = 1
  /\ namespaces = {}
  /\ known_teams = {}
  /\ team_namespaces = EmptyMap
  /\ pc = "initial"
  /\ sleeps = 0
  /\ cycle = NoCycle
  /\ recorded = {}

RenameNext ==
  \/ RenameTeam
  \/ InitialReconcile
  \/ Sleep
  \/ LoopReconcile
  \/ ErrorSleep

RenameSpec == RenameInit /\ [][RenameNext]_vars

(***************************************************************************)
(* Reading the record of the last cycle.                                   *)
(***************************************************************************)
Calls(op) == { i \in 1..Len(cycle.calls) : cycle.calls[i].op = op }

CallsFor(op, team_id) == { i \in Calls(op) : cycle.calls[i].id = team_id }

FailedCalls(op) == { i \in Calls(op) : cycle.calls[i].outcome = "failed" }

\* The cycle's fetch failed: connection error, non-200 or unparsable body.
FetchFailed == cycle.ran /\ cycle.fetch = "error"

\* The cycle got a 200 whose records carry ids and ran to its end.
FetchedAndCompleted ==
  cycle.ran /\ cycle.fetch \in {"ok", "noname"} /\ ~cycle.raised

\* The namespace names the registry's teams ask for.
DesiredNamespaces ==
  { sanitize_namespace_name(teams_store[t]) : t \in DOMAIN teams_store }

(***************************************************************************)
(* C1. Stability under fetch failure: after a cycle whose fetch failed,    *)
(* known_teams and team_namespaces are what they were before the cycle.    *)
(***************************************************************************)
C1_FetchFailureLeavesTracker ==
  FetchFailed =>
    /\ known_teams = cycle.known0
    /\ team_namespaces = cycle.team_namespaces0

(***************************************************************************)
(* C2. No spurious deletions: a cycle whose fetch failed issues no         *)
(* create_namespace and no delete_namespace call, so no namespace of a     *)
(* team still in the registry is deleted because of it.                    *)
(***************************************************************************)
C2_FetchFailureIssuesNoCalls ==
  FetchFailed =>
    /\ cycle.calls = <<>>
    /\ namespaces = cycle.namespaces0

(***************************************************************************)
(* C3. Create failure is retried: an id whose create call returned         *)
(* "failed" in the cycle is in neither known_teams nor team_namespaces     *)
(* after the cycle (so that it is an addition again on the next cycle).    *)
(***************************************************************************)
C3_FailedCreateStaysUnknown ==
  \A i \in FailedCalls("create") :
    /\ cycle.calls[i].id \notin known_teams
    /\ cycle.calls[i].id \notin DOMAIN team_namespaces

(***************************************************************************)
(* C4. Delete failure is retried: an id whose delete call returned         *)
(* "failed" in the cycle stays in known_teams and in team_namespaces       *)
(* after the cycle (so that it is a removal again on the next cycle).      *)
(***************************************************************************)
C4_FailedDeleteStaysKnown ==
  \A i \in FailedCalls("delete") :
    /\ cycle.calls[i].id \in known_teams
    /\ cycle.calls[i].id \in DOMAIN team_namespaces

(***************************************************************************)
(* C5. Eventual convergence: if from some point on the registry stays at   *)
(* D and every fetch, create and delete succeeds, then eventually the      *)
(* namespaces in the cluster are exactly the sanitized names of the teams  *)
(* of D, and stay so.                                                      *)
(* A cycle that ran to its end on a successful fetch leaves known_teams    *)
(* equal to the fetched ids, so while the registry stays as fetched every  *)
(* later cycle with a successful fetch finds no addition and no removal    *)
(* and changes nothing. The claim therefore asks that the cluster is       *)
(* converged already once such a cycle has found nothing to do and the     *)
(* registry is still as fetched.                                           *)
(***************************************************************************)
LoopRunning == pc \in {"sleeping", "reconcile"}

CleanCycle ==
  /\ cycle.ran
  /\ cycle.fetch = "ok"
  /\ ~cycle.raised
  /\ FailedCalls("create") = {}
  /\ FailedCalls("delete") = {}

Converged == namespaces = DesiredNamespaces

C5_QuietCycleIsConverged ==
  (LoopRunning /\ CleanCycle /\ cycle.calls = <<>>
     /\ teams_store = cycle.desired)
    => Converged

(***************************************************************************)
(* C6. At the end of every cycle, however it ended, the key set of         *)
(* team_namespaces is a subset of known_teams.                             *)
(***************************************************************************)
C6_NamespaceKeysAreKnown == DOMAIN team_namespaces \subseteq known_teams

(***************************************************************************)
(* C7. Name collisions do not merge state: no two distinct ids of          *)
(* known_teams map to the same namespace name in team_namespaces.          *)
(***************************************************************************)
C7_NoSharedNamespaceName ==
  \A a, b \in known_teams \cap DOMAIN team_namespaces :
    a # b => team_namespaces[a] # team_namespaces[b]

(***************************************************************************)
(* C8. Loop resilience: an error raised inside a reconciliation cycle, the *)
(* first one included, does not terminate run; the loop ends only on       *)
(* external cancellation.                                                  *)
(***************************************************************************)
C8_RaisedCycleKeepsLoop == cycle.raised => pc # "crashed"

(***************************************************************************)
(* C9. One-cycle convergence from cold start: after a cycle that started   *)
(* with an empty tracker, fetched the desired teams and in which every     *)
(* create returned created or already-exists, known_teams is the desired   *)
(* id set and every desired id maps to the sanitized name of its team.     *)
(***************************************************************************)
ColdStartCycle ==
  /\ cycle.ran
  /\ cycle.known0 = {}
  /\ DOMAIN cycle.team_namespaces0 = {}
  /\ cycle.fetch = "ok"
  /\ ~cycle.raised
  /\ FailedCalls("create") = {}

C9_ColdStartConvergence ==
  ColdStartCycle =>
    /\ known_teams = DOMAIN cycle.desired
    /\ \A t \in DOMAIN cycle.desired :
         /\ t \in DOMAIN team_namespaces
         /\ team_namespaces[t] = sanitize_namespace_name(cycle.desired[t])

\* A cold-start cycle that recorded two teams, one of them on "already exists".
C9_Witness ==
  /\ ColdStartCycle
  /\ Cardinality(DOMAIN cycle.desired) = 2
  /\ DOMAIN team_namespaces = DOMAIN cycle.desired
  /\ \E i \in Calls("create") : cycle.calls[i].outcome = "exists"
  /\ \E i \in Calls("create") : cycle.calls[i].outcome = "created"

(***************************************************************************)
(* C10. Diff-driven calls: a cycle that fetched desired set D against      *)
(* known set K issues exactly one create for each id of D \ K, with the    *)
(* sanitized name of its team, and for no other id; exactly one delete for *)
(* each id of K \ D that has a recorded name, with that name, and for no   *)
(* other id; and no id gets both. After a cycle with teams 1 and 2, a      *)
(* cycle with only team 2 issues one delete, for team 1's recorded name,   *)
(* no create, and leaves only id 2 tracked.                                *)
(***************************************************************************)
C10_DiffDrivenCalls ==
  (cycle.ran /\ cycle.fetch \in {"ok", "noname"}) =>
    LET D == DOMAIN cycle.desired
        K == cycle.known0
        named == DOMAIN cycle.team_namespaces0
    IN  /\ \A t \in TeamIds :
             /\ Cardinality(CallsFor("create", t)) <=
                  (IF t \in D \ K THEN 1 ELSE 0)
             /\ Cardinality(CallsFor("delete", t)) <=
                  (IF t \in (K \ D) \cap named THEN 1 ELSE 0)
             /\ CallsFor("create", t) = {} \/ CallsFor("delete", t) = {}
        /\ \A i \in Calls("create") :
             cycle.calls[i].name =
               sanitize_namespace_name(cycle.desired[cycle.calls[i].id])
        /\ \A i \in Calls("delete") :
             cycle.calls[i].name = cycle.team_namespaces0[cycle.calls[i].id]
        /\ FetchedAndCompleted =>
             /\ \A t \in D \ K : Cardinality(CallsFor("create", t)) = 1
             /\ \A t \in (K \ D) \cap named :
                  Cardinality(CallsFor("delete", t)) = 1
        /\ (FetchedAndCompleted /\ K = {1, 2} /\ named = {1, 2} /\ D = {2})
             => /\ Len(cycle.calls) = 1
                /\ cycle.calls[1].op = "delete"
                /\ cycle.calls[1].id = 1
                /\ cycle.calls[1].name = cycle.team_namespaces0[1]
                /\ known_teams = {2}
                /\ cycle.calls[1].outcome # "failed" =>
                     DOMAIN team_namespaces = {2}

\* A cycle that created a namespace for a new team and deleted the one of a
\* removed team.
C10_Witness ==
  /\ FetchedAndCompleted
  /\ cycle.known0 = {1}
  /\ DOMAIN cycle.desired = {2}
  /\ \E i \in Calls("create") : cycle.calls[i].id = 2
  /\ \E i \in Calls("delete") : cycle.calls[i].id = 1

(***************************************************************************)
(* C11. Create idempotence: for any team of the registry and any tracker   *)
(* state, processing the team as an addition leaves the same known_teams   *)
(* and team_namespaces when the create call answers "already exists" (409) *)
(* as when it answers "created"; and a second cycle with a successful      *)
(* fetch of the same desired set issues no call and leaves the tracker     *)
(* unchanged.                                                              *)
(***************************************************************************)
\* The team processed as the only addition, the cluster holding `ns`.
AsAddition(t, ns) ==
  CreateLoop(<<t>>, get_teams, {},
             [team_namespaces |-> team_namespaces, namespaces |-> ns,
              calls |-> <<>>, raised |-> FALSE,
              known_teams |-> UpdateKnownTeams(known_teams \cup {t}),
              recorded |-> recorded])

\* The next cycle, with a successful fetch and no refused call.
NextCleanCycle ==
  reconcile_teams("ok", 0,
                  CHOOSE o \in Orders(new_teams(DOMAIN teams_store)) : TRUE,
                  CHOOSE o \in Orders(deleted_teams(DOMAIN teams_store)) : TRUE,
                  {}, {})

C11_CreateIdempotence ==
  /\ \A t \in DOMAIN teams_store :
       LET name == sanitize_namespace_name(teams_store[t])
           present == AsAddition(t, namespaces \cup {name})
           absent == AsAddition(t, namespaces \ {name})
       IN  /\ present.calls[1].outcome = "exists"
           /\ absent.calls[1].outcome = "created"
           /\ present.team_namespaces = absent.team_namespaces
           /\ present.known_teams = absent.known_teams
           /\ t \in DOMAIN present.team_namespaces
           /\ present.team_namespaces[t] = name
  /\ (CleanCycle /\ teams_store = cycle.desired) =>
       /\ NextCleanCycle.calls = <<>>
       /\ NextCleanCycle.known_teams = known_teams
       /\ NextCleanCycle.team_namespaces = team_namespaces

\* A clean cycle that recorded a team on "already exists" and whose desired
\* set is still the registry's.
C11_Witness ==
  /\ CleanCycle
  /\ teams_store = cycle.desired
  /\ \E i \in Calls("create") :
       /\ cycle.calls[i].outcome = "exists"
       /\ cycle.calls[i].id \in DOMAIN team_namespaces
       /\ cycle.calls[i].id \in known_teams

(***************************************************************************)
(* C12. sanitize_namespace_name is total and grammar-valid: for every      *)
(* input, the empty string, strings of invalid characters only and strings *)
(* with non-ASCII letters included, the name handed to create_namespace is *)
(* non-empty, holds only lowercase ASCII letters, ASCII digits and         *)
(* hyphens, and starts and ends with an alphanumeric character.            *)
(***************************************************************************)
AsciiAlnum == LowerChars \cup DigitChars

ValidName(n) ==
  /\ n # <<>>
  /\ \A i \in 1..Len(n) : n[i] \in AsciiAlnum \cup {"-"}
  /\ n[1] \in AsciiAlnum
  /\ n[Len(n)] \in AsciiAlnum

C12_SanitizedNameIsValid ==
  \A i \in Calls("create") : ValidName(cycle.calls[i].name)

(***************************************************************************)
(* C13. The output of sanitize_namespace_name is at most 63 characters     *)
(* long for every input, also when the cleaned name has 63 characters or   *)
(* more.                                                                   *)
(***************************************************************************)
C13_SanitizedNameFits ==
  \A i \in Calls("create") : Len(cycle.calls[i].name) <= MaxNamespaceLen

(***************************************************************************)
(* C14. On every input whose cleaned form is not truncated,                *)
(* sanitize_namespace_name is the reference pipeline: lowercase, replace   *)
(* each non-alphanumeric character by a hyphen, collapse runs of hyphens,  *)
(* trim leading and trailing hyphens, prepend "team-"; the output has no   *)
(* two consecutive hyphens after the prefix, and "Backend Team!!" gives    *)
(* "team-backend-team".                                                    *)
(***************************************************************************)
RECURSIVE CollapseHyphens(_)
CollapseHyphens(s) ==
  IF Len(s) <= 1 THEN s
  ELSE IF s[1] = "-" /\ s[2] = "-" THEN CollapseHyphens(Tail(s))
  ELSE <<s[1]>> \o CollapseHyphens(Tail(s))

TrimHyphens(s) ==
  LET kept == { i \in 1..Len(s) : s[i] # "-" }
  IN  IF kept = {} THEN <<>>
      ELSE SubSeq(s, CHOOSE i \in kept : \A j \in kept : i <= j,
                     CHOOSE i \in kept : \A j \in kept : i >= j)

Cleaned(raw) == TrimHyphens(CollapseHyphens(ReplaceInvalid(Lower(raw))))

Reference(raw) == <<"t", "e", "a", "m", "-">> \o Cleaned(raw)

C14_MatchesReferencePipeline ==
  \A i \in Calls("create") :
    LET raw == cycle.desired[cycle.calls[i].id]
        out == cycle.calls[i].name
    IN  Len(Cleaned(raw)) <= MaxNamespaceLen =>
          /\ out = Reference(raw)
          /\ \A k \in 6..(Len(out) - 1) : ~(out[k] = "-" /\ out[k + 1] = "-")
          /\ raw = BackendTeam =>
               out = <<"t", "e", "a", "m", "-", "b", "a", "c", "k", "e", "n",
                       "d", "-", "t", "e", "a", "m">>

\* A create call for a name with a run of invalid characters inside and a
\* trailing one, and the call for "Backend Team!!" (in another behaviour).
C14_Witness ==
  \E i \in Calls("create") :
    /\ cycle.desired[cycle.calls[i].id] = <<"A", " ", "-", "1">>
    /\ cycle.calls[i].name = <<"t", "e", "a", "m", "-", "a", "-", "1">>

(***************************************************************************)
(* C15. After an error is caught at the loop boundary, the loop waits      *)
(* exactly one poll interval, one asyncio.sleep, before the next cycle     *)
(* starts, as between two normal cycles.                                   *)
(***************************************************************************)
C15_OneSleepAfterError == (pc = "reconcile" /\ cycle.raised) => sleeps = 1

(***************************************************************************)
(* C16. Removal without a recorded name: an id of known_teams with no      *)
(* entry in team_namespaces that is absent from a successfully fetched     *)
(* desired set gets no delete call and leaves known_teams; and an id whose *)
(* delete call answers "not found" (404) leaves known_teams and            *)
(* team_namespaces.                                                        *)
(***************************************************************************)
\* Ids the cycle had to remove although no name was recorded for them.
NamelessRemovals ==
  (cycle.known0 \ DOMAIN cycle.desired) \ DOMAIN cycle.team_namespaces0

C16_NamelessAndNotFoundRemovals ==
  /\ FetchedAndCompleted =>
       \A t \in NamelessRemovals :
         /\ CallsFor("delete", t) = {}
         /\ t \notin known_teams
  /\ \A i \in Calls("delete") :
       cycle.calls[i].outcome = "notfound" =>
         /\ cycle.calls[i].id \notin known_teams
         /\ cycle.calls[i].id \notin DOMAIN team_namespaces

\* A cycle that removed an id tracked without a name.
C16_Witness ==
  /\ FetchedAndCompleted
  /\ NamelessRemovals # {}
  /\ NamelessRemovals \cap known_teams = {}

(***************************************************************************)
(* C17. The operator never issues a delete call for a namespace name that  *)
(* is the recorded name of another team id still in the desired set of the *)
(* same cycle, also when two team names sanitize to the same name.         *)
(***************************************************************************)
C17_NoDeleteOfLiveNamespace ==
  cycle.fetch = "ok" =>
    \A i \in Calls("delete") :
      ~\E u \in cycle.current_team_ids :
          /\ u # cycle.calls[i].id
          /\ u \in DOMAIN team_namespaces
          /\ team_namespaces[u] = cycle.calls[i].name

(***************************************************************************)
(* C18. Every delete_namespace call uses a name stored earlier in          *)
(* team_namespaces by a create call for the same id that returned created  *)
(* or already-exists in this process; the operator never deletes a name it *)
(* has not recorded, and from a cold start it issues no delete call until  *)
(* some create has been recorded.                                          *)
(***************************************************************************)
RecordedPairs == { <<r.id, r.name>> : r \in recorded }

C18_DeletesOnlyRecordedNames ==
  /\ \A r \in recorded : r.outcome \in {"created", "exists"}
  /\ \A t \in DOMAIN team_namespaces : <<t, team_namespaces[t]>> \in RecordedPairs
  /\ \A i \in Calls("delete") :
       /\ <<cycle.calls[i].id, cycle.calls[i].name>> \in RecordedPairs
       /\ CallsFor("create", cycle.calls[i].id) = {}
  /\ recorded = {} => Calls("delete") = {}

\* A delete call for a name recorded on "already exists" after a restart.
C18_Witness ==
  \E i \in Calls("delete") :
    [id |-> cycle.calls[i].id, name |-> cycle.calls[i].name,
     outcome |-> "exists"] \in recorded

(***************************************************************************)
(* C19. After every cycle that runs to its end without raising,            *)
(* known_teams is exactly the set of ids that cycle's fetch returned, the  *)
(* empty set when the fetch failed, whichever create or delete calls       *)
(* succeeded or failed.                                                    *)
(***************************************************************************)
C19_KnownTeamsIsFetchedIds ==
  (cycle.ran /\ ~cycle.raised) =>
    /\ known_teams = cycle.current_team_ids
    /\ cycle.fetch = "error" => known_teams = {}
    /\ cycle.fetch \in {"ok", "noname"} => known_teams = DOMAIN cycle.desired

\* A cycle that ran to its end with a failed create and a failed delete.
C19_Witness ==
  /\ cycle.ran
  /\ ~cycle.raised
  /\ FailedCalls("create") # {}
  /\ FailedCalls("delete") # {}
  /\ known_teams = DOMAIN cycle.desired

(***************************************************************************)
(* C20. If a team's name changes between two successful polls while its id *)
(* stays in the desired set and in known_teams, the cycle issues no create *)
(* and no delete call for that id and leaves its entry in team_namespaces  *)
(* as it was, the name derived from the old team name; a namespace name is *)
(* derived only when an id is an addition.                                 *)
(***************************************************************************)
\* Ids that were known before the cycle and are still desired.
StayingIds == cycle.known0 \cap DOMAIN cycle.desired

C20_RenameLeavesEntry ==
  (cycle.ran /\ cycle.fetch = "ok") =>
    /\ \A t \in StayingIds :
         /\ CallsFor("create", t) = {}
         /\ CallsFor("delete", t) = {}
         /\ (t \in DOMAIN team_namespaces) = (t \in DOMAIN cycle.team_namespaces0)
         /\ t \in DOMAIN team_namespaces =>
              team_namespaces[t] = cycle.team_namespaces0[t]
    /\ \A t \in DOMAIN team_namespaces :
         (t \notin DOMAIN cycle.team_namespaces0
            \/ team_namespaces[t] # cycle.team_namespaces0[t])
           => t \in DOMAIN cycle.desired \ cycle.known0

\* A cycle that fetched a new name for a tracked team and kept the namespace
\* name derived from the old one.
C20_Witness ==
  /\ FetchedAndCompleted
  /\ cycle.fetch = "ok"
  /\ \E t \in StayingIds \cap DOMAIN team_namespaces :
       /\ team_namespaces[t] # sanitize_namespace_name(cycle.desired[t])
       /\ team_namespaces[t] = cycle.team_namespaces0[t]

====
